---- MODULE Spec2Model ----
(***************************************************************************)
(* A model of the Conan recipe FossilIoConan (conanfile.py).               *)
(*                                                                         *)
(* The recipe is a class whose methods are invoked, one after the other,   *)
(* by the package manager.  The model keeps the recipe object's fields     *)
(* (folders, options, cpp_info), the file system the steps read and write, *)
(* the log of the calls the recipe has issued, and the position of the     *)
(* run (which method, which statement of it).                              *)
(*                                                                         *)
(* Paths are sequences of components: "code/logic/fossil/io" is            *)
(* <<"code", "logic", "fossil", "io">>.  A file is a record                *)
(* [dir, stem, ext, rev]: the directory it lies in, its name split at the  *)
(* last dot, and the revision of the tree it came from.                    *)
(***************************************************************************)
EXTENDS Integers, Sequences, FiniteSets, TLC

\* ------------------------------------------------------------------ bounds

\* How many distinct header names a source tree may hold.
NumHeaders == 2
\* How many times the package manager may ask for the package metadata.
MaxInfoCalls == 2

\* ------------------------------------------------- the class's attributes

name == "fossil_io"
version == "0.2.4"
url == "https://github.com/fossillogic/fossil-io"

options_decl == [shared |-> {TRUE, FALSE}]
\* A slip in the default: the shared library as the default.
default_options_on == [shared |-> TRUE]
default_options == [shared |-> FALSE]

\* What the consumer may pass for the option: nothing, or one of the
\* declared values.
ConsumerChoices == {"unset", "True", "False"}

OptionsFor(choice) ==
    IF choice = "unset" THEN default_options
    ELSE [shared |-> (choice = "True")]

\* --------------------------------------------------------------- commands

\* A shell command given to self.run, by its parts.  depth = 0 stands for
\* a command line without the --depth flag.
NoCmd == [prog |-> "", branch |-> "", depth |-> 0, url |-> ""]
GitClone(b, d, u) == [prog |-> "git clone", branch |-> b, depth |-> d, url |-> u]

\* f"v{self.version}"
Tag == "v" \o version

Call(k) == [op |-> k, cmd |-> NoCmd]
RunCmd(c) == [op |-> "run", cmd |-> c]

\* ---------------------------------------------------- the method bodies

layout_def == <<Call("folders=")>>
generate_def == <<Call("tc.generate")>>
\* Two slips in build(): its two statements swapped, its last one doubled.
build_def_swapped == <<Call("meson.build"), Call("meson.configure")>>
build_def_twice == <<Call("meson.configure"), Call("meson.build"), Call("meson.build")>>
build_def == <<Call("meson.configure"), Call("meson.build")>>
source_def_38 == <<RunCmd(GitClone(Tag, 1, url))>>
package_def == <<Call("meson.install"), Call("copy")>>
package_info_def == <<Call("cpp_info=")>>
source_def_56 == <<RunCmd(GitClone(Tag, 0, url))>>

\* The class body, in source order: each def statement binds its name.
ClassBody ==
    << [name |-> "layout", body |-> layout_def],
       [name |-> "generate", body |-> generate_def],
       [name |-> "build", body |-> build_def],
       [name |-> "source", body |-> source_def_38],
       [name |-> "package", body |-> package_def],
       [name |-> "package_info", body |-> package_info_def],
       [name |-> "source", body |-> source_def_56] >>

Bindings(n) == {i \in DOMAIN ClassBody : ClassBody[i].name = n}

LastOf(S) == CHOOSE i \in S : \A j \in S : i >= j

\* A plausible slip: the first binding of a name stays in effect.
WhichBindingFirst(S) == CHOOSE i \in S : \A j \in S : i <= j
\* A later def of the same name rebinds it: the last one is in effect.
WhichBinding(S) == LastOf(S)

Lookup(n) == ClassBody[WhichBinding(Bindings(n))].body

\* ------------------------------------------------------------------ paths

\* The roots the package manager hands to the recipe: where the sources,
\* the build and the package of this run live.
base_source == <<"s">>
base_build == <<"b">>
package_folder == <<"p">>

NotDot(c) == c # "."
\* Path normalisation: "." components vanish.
Norm(p) == SelectSeq(p, NotDot)

IsPrefix(p, q) == Len(p) <= Len(q) /\ SubSeq(q, 1, Len(p)) = p
Rel(p, q) == SubSeq(q, Len(p) + 1, Len(q))

\* A slip in layout(): another build folder.
layout_build_other == [source |-> <<".">>, build |-> <<"build">>]
\* What layout() assigns to self.folders.
layout_folders == [source |-> <<".">>, build |-> <<"builddir">>]

\* copy(self, "*.h", src="code/logic/fossil/io",
\*      dst=os.path.join(self.package_folder, "include", "fossil", "io"))
copy_pattern == [stem |-> "*", ext |-> "h"]
copy_src == <<"code", "logic", "fossil", "io">>
\* A slip in the destination: the include component left out.
copy_dst_flat == package_folder \o <<"fossil", "io">>
copy_dst == package_folder \o <<"include", "fossil", "io">>

\* What package_info() assigns to self.cpp_info.
info_libs == <<name>>
info_includedirs == << <<"include">> >>

\* A slip in package_info(): the lists extended instead of assigned.
SetInfoAppend(ci) ==
    [libs |-> ci.libs \o info_libs,
     includedirs |-> ci.includedirs \o info_includedirs]
\* self.cpp_info.libs = [...]; self.cpp_info.includedirs = [...]
SetInfo(ci) == [libs |-> info_libs, includedirs |-> info_includedirs]

\* ------------------------------------------------------------ file system

HeaderNames == {[stem |-> i, ext |-> "h"] : i \in 1..NumHeaders}
OtherNames == {[stem |-> 1, ext |-> "c"]}
SrcNames == HeaderNames \cup OtherNames

\* The revisions the tree that holds the recipe may be at: the tag of the
\* declared version, or a later commit that still declares it.
Revs == {Tag, "main"}

\* Where in a source tree the library's headers lie.
HeaderDir == <<"code", "logic", "fossil", "io">>

\* A source tree rooted at root: its meson.build, and the files named.
Tree(root, rev, names) ==
    {[dir |-> root, stem |-> 0, ext |-> "build", rev |-> rev]}
    \cup {[dir |-> root \o HeaderDir, stem |-> n.stem, ext |-> n.ext, rev |-> rev]
            : n \in names}

\* git clone <url>, given no directory, clones into the directory named by
\* the last component of the URL.
RepoDir(u) == IF u = url THEN <<"fossil-io">> ELSE <<"repo">>

\* fnmatch of a file name against a pattern whose stem is the wildcard.
Matches(pat, f) == f.ext = pat.ext

\* conan.tools.files.copy: every file under src that matches, to the same
\* relative place under dst.
CopyFiles(pat, src, dst, files) ==
    {[f EXCEPT !.dir = dst \o Rel(src, f.dir)]
        : f \in {g \in files : IsPrefix(src, g.dir) /\ Matches(pat, g)}}

\* ------------------------------------------------------------------ state

VARIABLES
    pc,        \* the stage of the run the package manager is at
    ip,        \* the statement of the stage's method that is next
    status,    \* "running", "failed" (a call raised) or "done"
    folders,   \* self.folders: source and build, relative to the roots
    consumer,  \* what the consumer passed for the option shared
    options,   \* self.options
    cpp_info,  \* self.cpp_info: libs and includedirs
    infoCalls, \* how many times package_info() has run
    log,       \* the calls issued so far, in order, each with its outcome
    fs,        \* the files on disk
    copied,    \* the files the header copy has written
    meson      \* the revision of the sources Meson configured and built

vars == <<pc, ip, status, folders, consumer, options, cpp_info, infoCalls,
          log, fs, copied, meson>>

source_folder == Norm(base_source \o folders.source)
build_folder == Norm(base_build \o folders.build)

\* ------------------------------------------------------------- the driver

\* The stages of one packaging run, in the order the package manager goes
\* through them.  "exports" is the copy of the files exports_sources names
\* into the source folder; every other stage is the method of that name.
Stages == <<"layout", "exports", "source", "generate", "build", "package",
            "package_info">>

StageIndex(s) == CHOOSE i \in DOMAIN Stages : Stages[i] = s
NextStage(s) == Stages[StageIndex(s) + 1]

CurOp == Lookup(pc)[ip]

At(stage, op) ==
    /\ status = "running"
    /\ pc = stage
    /\ ip \in DOMAIN Lookup(stage)
    /\ CurOp.op = op

\* A slip that would swallow a failed command: self.run(..., ignore_errors=True).
HandledRun(op) == op.op = "run"
\* No call of the recipe is wrapped in try/except, and none asks for the
\* error to be ignored: a call that fails raises out of its method.
Handled(op) == FALSE

Entry(op, ok, dir) == [op |-> op.op, cmd |-> op.cmd, ok |-> ok, dir |-> dir]

\* After a call of the current method: a raise leaves the method and ends
\* the run; otherwise the next statement, or the next stage.
Advance(op, ok) ==
    IF ~ok /\ ~Handled(op)
    THEN /\ status' = "failed"
         /\ UNCHANGED <<pc, ip>>
    ELSE IF ip < Len(Lookup(pc))
         THEN /\ ip' = ip + 1
              /\ UNCHANGED <<pc, status>>
         ELSE /\ pc' = NextStage(pc)
              /\ ip' = 1
              /\ UNCHANGED status

Init ==
    /\ pc = "layout"
    /\ ip = 1
    /\ status = "running"
    /\ folders = [source |-> <<>>, build |-> <<>>]
    /\ consumer \in ConsumerChoices
    /\ options = OptionsFor(consumer)
    /\ cpp_info \in {[libs |-> <<>>, includedirs |-> <<>>],
                     [libs |-> <<>>, includedirs |-> << <<"include">> >>]}
    /\ infoCalls = 0
    /\ log = <<>>
    /\ fs = {}
    /\ copied = {}
    /\ meson = [configured |-> "none", built |-> "none"]

\* ---------------------------------------------------------------- actions

\* layout(): the two folder assignments.
Layout ==
    /\ At("layout", "folders=")
    /\ folders' = layout_folders
    /\ log' = Append(log, Entry(CurOp, TRUE, <<>>))
    /\ Advance(CurOp, TRUE)
    /\ UNCHANGED <<consumer, options, cpp_info, infoCalls, fs, copied, meson>>

\* exports_sources: the files "code/**", "meson.build" and "meson.options"
\* of the tree that holds the recipe are put in the source folder.
ExportSources ==
    /\ status = "running"
    /\ pc = "exports"
    /\ \E names \in SUBSET SrcNames, rev \in Revs :
          fs' = fs \cup Tree(source_folder, rev, names)
    /\ pc' = NextStage(pc)
    /\ ip' = 1
    /\ UNCHANGED <<status, folders, consumer, options, cpp_info, infoCalls,
                   log, copied, meson>>

\* source(): self.run(f"git clone ..."), in the source folder.
Source ==
    /\ At("source", "run")
    /\ \E ok \in BOOLEAN, names \in SUBSET SrcNames :
          /\ fs' = IF ok
                   THEN fs \cup Tree(source_folder \o RepoDir(CurOp.cmd.url),
                                     CurOp.cmd.branch, names)
                   ELSE fs
          /\ log' = Append(log, Entry(CurOp, ok, source_folder))
          /\ Advance(CurOp, ok)
    /\ UNCHANGED <<folders, consumer, options, cpp_info, infoCalls, copied, meson>>

\* generate(): MesonToolchain(self).generate().
Generate ==
    /\ At("generate", "tc.generate")
    /\ \E ok \in BOOLEAN :
          /\ log' = Append(log, Entry(CurOp, ok, build_folder))
          /\ Advance(CurOp, ok)
    /\ UNCHANGED <<folders, consumer, options, cpp_info, infoCalls, fs, copied, meson>>

\* The revisions of the meson.build files in the source folder.
ProjectRevs == {f.rev : f \in {g \in fs : g.dir = source_folder /\ g.ext = "build"}}

\* build(), first statement: meson.configure() sets up the build folder
\* for the project in the source folder.
MesonConfigure ==
    /\ At("build", "meson.configure")
    /\ \E ok \in BOOLEAN, rev \in ProjectRevs \cup {"none"} :
          /\ ok => rev \in ProjectRevs
          /\ ~ok => rev = "none"
          /\ meson' = IF ok THEN [meson EXCEPT !.configured = rev] ELSE meson
          /\ log' = Append(log, Entry(CurOp, ok, build_folder))
          /\ Advance(CurOp, ok)
    /\ UNCHANGED <<folders, consumer, options, cpp_info, infoCalls, fs, copied>>

\* build(), second statement: meson.build() compiles what was configured.
MesonBuild ==
    /\ At("build", "meson.build")
    /\ \E ok \in BOOLEAN :
          /\ ok => meson.configured # "none"
          /\ meson' = IF ok THEN [meson EXCEPT !.built = meson.configured] ELSE meson
          /\ log' = Append(log, Entry(CurOp, ok, build_folder))
          /\ Advance(CurOp, ok)
    /\ UNCHANGED <<folders, consumer, options, cpp_info, infoCalls, fs, copied>>

\* The headers of the project in the source folder.
ProjectHeaders ==
    {f \in fs : f.dir = source_folder \o HeaderDir /\ f.ext = "h"}

\* package(), first statement: meson.install().  Whether the project's
\* build description installs the headers is not the recipe's to say.
MesonInstall ==
    /\ At("package", "meson.install")
    /\ \E ok \in BOOLEAN, withHeaders \in BOOLEAN :
          /\ ~ok => ~withHeaders
          /\ fs' = IF ok /\ withHeaders
                   THEN fs \cup {[f EXCEPT !.dir = package_folder \o <<"include", "fossil", "io">>]
                                    : f \in ProjectHeaders}
                   ELSE fs
          /\ log' = Append(log, Entry(CurOp, ok, build_folder))
          /\ Advance(CurOp, ok)
    /\ UNCHANGED <<folders, consumer, options, cpp_info, infoCalls, copied, meson>>

\* package(), second statement: the header copy.  Its src is a relative
\* path, so it is read from the working directory package() is called in,
\* which the recipe does not set.
CopyHeaders ==
    /\ At("package", "copy")
    /\ \E ok \in BOOLEAN, cwd \in {source_folder, build_folder} :
          LET new == CopyFiles(copy_pattern, cwd \o copy_src, copy_dst, fs) IN
          /\ fs' = IF ok THEN fs \cup new ELSE fs
          /\ copied' = IF ok THEN new ELSE copied
          /\ log' = Append(log, Entry(CurOp, ok, cwd))
          /\ Advance(CurOp, ok)
    /\ UNCHANGED <<folders, consumer, options, cpp_info, infoCalls, meson>>

\* package_info(): the two assignments to self.cpp_info.  The package
\* manager calls it for the finished package, and again whenever the
\* package is consumed.
PackageInfo ==
    /\ pc = "package_info"
    /\ status \in {"running", "done"}
    /\ infoCalls < MaxInfoCalls
    /\ ip \in DOMAIN Lookup(pc)
    /\ CurOp.op = "cpp_info="
    /\ cpp_info' = SetInfo(cpp_info)
    /\ infoCalls' = infoCalls + 1
    /\ log' = Append(log, Entry(CurOp, TRUE, package_folder))
    /\ status' = "done"
    /\ UNCHANGED <<pc, ip, folders, consumer, options, fs, copied, meson>>

Next ==
    \/ Layout
    \/ ExportSources
    \/ Source
    \/ Generate
    \/ MesonConfigure
    \/ MesonBuild
    \/ MesonInstall
    \/ CopyHeaders
    \/ PackageInfo

Spec == Init /\ [][Next]_vars

\* ----------------------------------------------------------------- claims

\* The steps the claims speak of, in the order the recipe is to take them.
Canon == <<"run", "meson.configure", "meson.build", "meson.install", "copy",
           "cpp_info=">>
ToolOps == {"run", "tc.generate", "meson.configure", "meson.build",
            "meson.install", "copy"}
MesonOps == {"meson.configure", "meson.build", "meson.install"}

IsCanon(e) == \E i \in DOMAIN Canon : Canon[i] = e.op
IsRun(e) == e.op = "run"
Steps == SelectSeq(log, IsCanon)
Clones == SelectSeq(log, IsRun)
Count(op) == Cardinality({i \in DOMAIN log : log[i].op = op})
Succeeded(op) == \E i \in DOMAIN log : log[i].op = op /\ log[i].ok

\* C1: the steps of a run occur in the order clone, configure, build,
\* install, header copy, metadata, none skipped, and a step is only issued
\* once every step before it has succeeded.
C1_LinearOrder ==
    \A i \in 1..Len(Steps) :
        /\ Steps[i].op = Canon[IF i < Len(Canon) THEN i ELSE Len(Canon)]
        /\ i < Len(Steps) => Steps[i].ok

C1_Witness ==
    /\ status = "done"
    /\ Len(Steps) >= Len(Canon)
    /\ Steps[2].op = "meson.configure"
    /\ Steps[5].op = "copy"

\* C2: once source, build and package have succeeded, the package's
\* include/fossil/io holds every header of code/logic/fossil/io of the
\* sources the run's clone obtained.
C2_HeadersOfClonePackaged ==
    pc = "package_info" =>
        \A f \in fs :
            (f.dir = source_folder \o <<"fossil-io">> \o <<"code", "logic", "fossil", "io">>
             /\ f.ext = "h")
            => \E g \in fs :
                  /\ g.dir = package_folder \o <<"include", "fossil", "io">>
                  /\ g.stem = f.stem
                  /\ g.ext = f.ext

\* C3: a failed call ends the run: nothing is issued after it, it is not
\* issued again, and no metadata is emitted for the run.
C3_AbortOnFailure ==
    \A i \in DOMAIN log :
        ~log[i].ok => /\ i = Len(log)
                      /\ status = "failed"
                      /\ infoCalls = 0

C3_Witness ==
    /\ status = "failed"
    /\ Len(log) > 0
    /\ log[Len(log)].op = "meson.build"
    /\ ~log[Len(log)].ok

\* C4: every clone asks for the tag "v" + version of the declared url, and
\* the sources that were built are of that revision.
C4_BuiltRevisionIsTag ==
    /\ \A i \in DOMAIN Clones :
          /\ Clones[i].cmd.branch = "v" \o "0.2.4"
          /\ Clones[i].cmd.url = "https://github.com/fossillogic/fossil-io"
    /\ meson.built # "none" => meson.built = "v" \o "0.2.4"

\* C5: after any number of calls of package_info, for either value of the
\* option, the metadata names exactly the library fossil_io and exactly
\* the include directory include.
C5_OneLibOneIncludeDir ==
    infoCalls >= 1 =>
        /\ cpp_info.libs = <<"fossil_io">>
        /\ cpp_info.includedirs = << <<"include">> >>

C5_Witness ==
    /\ infoCalls >= 2
    /\ options.shared
    /\ Len(cpp_info.libs) = 1

\* C6: every header the copy has written lies in fossil/io beneath the one
\* include directory the metadata declares, so fossil/io/<name>.h resolves.
C6_CopiedUnderIncludeDir ==
    infoCalls >= 1 =>
        /\ Len(cpp_info.includedirs) = 1
        /\ \A f \in copied :
              /\ f \in fs
              /\ f.ext = "h"
              /\ f.dir = package_folder \o cpp_info.includedirs[1] \o <<"fossil", "io">>

C6_Witness ==
    /\ infoCalls >= 1
    /\ copied # {}

\* C7: the option shared is True or False, is False whenever the consumer
\* did not set it, and no step changes it.
C7_SharedOption ==
    /\ [](/\ DOMAIN options = {"shared"}
          /\ options.shared \in {TRUE, FALSE}
          /\ consumer = "unset" => options.shared = FALSE
          /\ consumer = "True" => options.shared = TRUE)
    /\ [][options' = options]_vars

C7_Witness ==
    /\ consumer = "unset"
    /\ status = "done"
    /\ ~options.shared

\* C8: once layout() has run the source root is "." and the build folder
\* "builddir", no later step changes them, and configure, build and
\* install all work in that build folder.
C8_LayoutFolders ==
    /\ pc # "layout" => folders = [source |-> <<".">>, build |-> <<"builddir">>]
    /\ \A i \in DOMAIN log :
          log[i].op \in MesonOps => log[i].dir = base_build \o <<"builddir">>

C8_Witness ==
    /\ Succeeded("meson.configure")
    /\ Succeeded("meson.build")
    /\ Succeeded("meson.install")

\* C9: the source step issues exactly one clone, the one of the later
\* definition: the tag v<version>, without --depth.
C9_LaterSourceInEffect ==
    /\ Len(Clones) <= 1
    /\ StageIndex(pc) > StageIndex("source") => Len(Clones) = 1
    /\ \A i \in DOMAIN Clones :
          /\ Clones[i].cmd.prog = "git clone"
          /\ Clones[i].cmd.depth = 0
          /\ Clones[i].cmd.branch = "v0.2.4"

C9_Witness ==
    /\ Len(Clones) = 1
    /\ Clones[1].ok
    /\ pc = "generate"

====
